---- MODULE Spec2Model ----
(***************************************************************************)
(* BeatBorders: the rate-limited fetcher, the paginated collectors, the    *)
(* snapshot builder (spotify_data_refresh.py) and the aggregate-geometry   *)
(* joiner (prepare_and_render_maps.py, app.py).                            *)
(***************************************************************************)
EXTENDS Integers, Sequences, FiniteSets, TLC

VARIABLES
  \* ---- safe_request (spotify_data_refresh.py:46-64) ----
  attempt,      \* loop variable of `for attempt in range(1, 4)`
  events,       \* history of the call: requests issued and sleeps taken
  sr_pc,        \* "loop" | "returned" | "raised"
  sr_ret,       \* value handed to the caller: None or the response
  \* ---- get_all_categories / fetch_genre_tracks (lines 83-141) ----
  c_kind,       \* which collector runs: "categories" | "tracks"
  total,        \* requested total (total / total_tracks)
  offset,       \* loop variable of `for offset in range(0, total, batch)`
  collected,    \* categories / all_tracks
  requested,    \* history: offsets requested so far
  pages,        \* history: what each request produced
  c_pc,         \* "idle" | "loop" | "after_loop" | "returned" | "raised"
  c_ret,        \* the returned list
  \* ---- main (lines 184-230) ----
  m_pc,             \* position of main, or how it ended
  token,            \* None or <<token>>
  categories,       \* list of (name, id)
  global_scores,    \* list of (name, score)
  top_genres,
  markets,
  result,           \* the dict built at lines 207-226
  mi, gi,           \* positions of the loops over markets and top_genres
  country_scores,
  country_artists,
  file,             \* data/spotify_data.json on disk
  wbuf,             \* chunks written to f and not yet on disk
  wpos,             \* number of chunks json.dump has written
  file0,            \* history: the file as it was before the run
  fs_ops,           \* history: number of open/write calls on the file
  failed_pairs,     \* history: (market, genre) pairs all of whose fetches failed
  \* ---- prepare_and_render_maps.py / app.py (module level) ----
  job,              \* "render" (prepare_and_render_maps.py) | "dashboard" (app.py)
  bfile,            \* data/countries.geojson: columns and rows
  snapshot,         \* data/spotify_data.json as loaded
  world,            \* the normalized GeoDataFrame
  merged_total,     \* merged_total / merged_tot
  genre_maps,       \* the merged_g of every genre handled so far
  j_pc,             \* position of the job, or how it ended
  \* ---- fetch_top_artists_for_genre after line 169 (lines 170-179) ----
  a_tracks,         \* tracks, as fetch_genre_tracks returned them
  a_top_n,          \* top_n
  a_i,              \* position of `for t in tracks`
  artist_scores,    \* the defaultdict(int) of line 170
  a_pc,             \* "idle" | "loop" | "returned"
  a_ret             \* the returned list

fetchVars == <<attempt, events, sr_pc, sr_ret>>
collVars == <<c_kind, total, offset, collected, requested, pages, c_pc, c_ret>>
mainVars == <<m_pc, token, categories, global_scores, top_genres, markets, result,
              mi, gi, country_scores, country_artists, file, wbuf, wpos, file0,
              fs_ops, failed_pairs>>
joinVars == <<job, bfile, snapshot, world, merged_total, genre_maps, j_pc>>
aggVars == <<a_tracks, a_top_n, a_i, artist_scores, a_pc, a_ret>>
vars == <<fetchVars, collVars, mainVars, joinVars, aggVars>>

notFetch == <<collVars, mainVars, joinVars, aggVars>>
notColl == <<fetchVars, mainVars, joinVars, aggVars>>
notMain == <<fetchVars, collVars, joinVars, aggVars>>
notJoin == <<fetchVars, collVars, mainVars, aggVars>>
notAgg == <<fetchVars, collVars, mainVars, joinVars>>

\* Optional values: None is the empty tuple, a present value x is <<x>>.
None == <<>>
Some(x) == <<x>>

\* ------------------------------------------------------------------------
\* Strings are sequences of one-character strings.
\* ------------------------------------------------------------------------
Digits == {"0", "1", "2", "3", "4", "5", "6", "7", "8", "9"}

DigitVal(c) ==
  CASE c = "0" -> 0 [] c = "1" -> 1 [] c = "2" -> 2 [] c = "3" -> 3
    [] c = "4" -> 4 [] c = "5" -> 5 [] c = "6" -> 6 [] c = "7" -> 7
    [] c = "8" -> 8 [] c = "9" -> 9

RECURSIVE LStrip(_)
LStrip(s) == IF s # <<>> /\ Head(s) = " " THEN LStrip(Tail(s)) ELSE s

RECURSIVE RStrip(_)
RStrip(s) ==
  IF s # <<>> /\ s[Len(s)] = " " THEN RStrip(SubSeq(s, 1, Len(s) - 1)) ELSE s

RECURSIVE DigitsValue(_, _)
DigitsValue(s, acc) ==
  IF s = <<>> THEN acc ELSE DigitsValue(Tail(s), 10 * acc + DigitVal(Head(s)))

\* int(str): surrounding blanks stripped, an optional sign, then one or more
\* decimal digits; anything else is a ValueError.
PyInt(s) ==
  LET t    == RStrip(LStrip(s))
      sgn  == IF t # <<>> /\ Head(t) \in {"+", "-"} THEN Head(t) ELSE ""
      body == IF sgn = "" THEN t ELSE Tail(t)
  IN  IF body # <<>> /\ \A i \in 1..Len(body) : body[i] \in Digits
        THEN [ok |-> TRUE,
              val |-> IF sgn = "-" THEN 0 - DigitsValue(body, 0)
                                   ELSE DigitsValue(body, 0)]
        ELSE [ok |-> FALSE, val |-> 0]

\* country codes and column names, as strings of characters
US == <<"U", "S">>
GB == <<"G", "B">>
FR == <<"F", "R">>
us == <<"u", "s">>
gb == <<"g", "b">>

ISO_A2_LOWER == <<"i", "s", "o", "_", "a", "2">>
ISO2_LOWER == <<"i", "s", "o", "2">>
ISO_3166_LOWER == <<"i", "s", "o", "_", "3", "1", "6", "6", "_", "1", "_", "a", "l", "p", "h", "a", "_", "2">>
ISO3166_LOWER == <<"i", "s", "o", "3", "1", "6", "6", "-", "1", "-", "a", "l", "p", "h", "a", "-", "2">>
COL_ISO_A2 == <<"I", "S", "O", "_", "A", "2">>
COL_ISO3166_2 == <<"I", "S", "O", "3", "1", "6", "6", "-", "1", "-", "A", "l", "p", "h", "a", "-", "2">>
COL_ISO3166_3 == <<"I", "S", "O", "3", "1", "6", "6", "-", "1", "-", "A", "l", "p", "h", "a", "-", "3">>
COL_ADM0_A3 == <<"A", "D", "M", "0", "_", "A", "3">>
COL_NAME == <<"n", "a", "m", "e">>
COL_ISO_A2_EH == <<"I", "S", "O", "_", "A", "2", "_", "E", "H">>
COL_ISO_3166_2 == <<"i", "s", "o", "_", "3", "1", "6", "6", "_", "2">>

\* ------------------------------------------------------------------------
\* What one requests.request(...) can produce.
\* ------------------------------------------------------------------------
\* the Retry-After entry of resp.headers: missing, or present with a value
Absent == [present |-> FALSE, value |-> <<>>]
Header(v) == [present |-> TRUE, value |-> v]

\* Retry-After header values a server (or proxy) may send with a 429.
RetryAfterValues ==
  { <<"0">>, <<"2">>, <<" ", "1">>, <<>>, <<"-", "1">>, <<"1", ".", "5">>,
    <<"W", "e", "d", ",", " ", "2", "1">> }

Statuses == {200, 304, 400, 404, 429, 499, 500, 503}

Outcomes ==
       {[kind |-> "transport", status |-> 0, retry_after |-> Absent]}
  \cup {[kind |-> "status", status |-> s, retry_after |-> Absent] : s \in Statuses}
  \cup {[kind |-> "status", status |-> 429, retry_after |-> Header(h)] : h \in RetryAfterValues}

\* range(1, 4)
MaxAttempts == 3

\* resp.headers.get('Retry-After', '1')
RetryAfterHeader(o) ==
  IF o.retry_after.present THEN o.retry_after.value ELSE <<"1">>

\* (mutation) the header is ignored and the wait is always one second
RetrySeconds_Fixed(o) == PyInt(<<"1">>)

\* retry = int(...)
RetrySeconds(o) == PyInt(RetryAfterHeader(o))

\* (mutation) the lower bound of the 4xx test is off by one
IsClientError_OffByOne(status) == 400 < status /\ status < 500

\* 400 <= resp.status_code < 500
IsClientError(status) == 400 <= status /\ status < 500

\* resp.raise_for_status(): HTTPError for 4xx and 5xx
RaisesForStatus(status) == 400 <= status /\ status < 600

\* 2 ** attempt
RECURSIVE Pow2(_)
Pow2(n) == IF n = 0 THEN 1 ELSE 2 * Pow2(n - 1)

Backoff(a) == Pow2(a)

Sleep(n) == [ev |-> "sleep", secs |-> n]
Request(a, o) == [ev |-> "request", attempt |-> a, outcome |-> o]
Response(a, o) == [status |-> o.status, attempt |-> a]

\* One pass through the body of the for loop, for attempt number a and the
\* outcome o of requests.request.  ctl says how the pass ends.
LoopBody(a, o) ==
  IF o.kind = "transport"
    THEN [ctl |-> "continue", ret |-> None, sleeps |-> <<Sleep(Backoff(a))>>]
  ELSE IF o.status = 429
    THEN LET r == RetrySeconds(o) IN
         IF ~r.ok
           THEN [ctl |-> "raise", ret |-> None, sleeps |-> <<>>]   \* int(): ValueError
         ELSE IF r.val < 0
           THEN [ctl |-> "raise", ret |-> None, sleeps |-> <<>>]   \* time.sleep(): ValueError
         ELSE [ctl |-> "continue", ret |-> None, sleeps |-> <<Sleep(r.val)>>]
  ELSE IF IsClientError(o.status)
    THEN [ctl |-> "return", ret |-> None, sleeps |-> <<>>]
  ELSE IF RaisesForStatus(o.status)
    THEN [ctl |-> "continue", ret |-> None, sleeps |-> <<Sleep(Backoff(a))>>]
  ELSE [ctl |-> "return", ret |-> Some(Response(a, o)), sleeps |-> <<>>]

PcOf(ctl) ==
  CASE ctl = "continue" -> "loop" [] ctl = "return" -> "returned" [] ctl = "raise" -> "raised"

InitFetch ==
  /\ attempt = 1
  /\ events = <<>>
  /\ sr_pc = "loop"
  /\ sr_ret = None

\* no call of safe_request in progress
IdleFetch ==
  /\ attempt = 0
  /\ events = <<>>
  /\ sr_pc = "idle"
  /\ sr_ret = None

\* the file data/spotify_data.json: missing, or holding a sequence of chunks
NoFile == [exists |-> FALSE, content |-> <<>>]
FileOf(chunks) == [exists |-> TRUE, content |-> chunks]

EmptyResult == [top_genres |-> <<>>, country_genre_popularity |-> <<>>, top_artists |-> <<>>]

\* the memory of a process in which main is not running
MemoryGone ==
  /\ token = None
  /\ categories = <<>>
  /\ global_scores = <<>>
  /\ top_genres = <<>>
  /\ markets = <<>>
  /\ result = EmptyResult
  /\ mi = 0
  /\ gi = 0
  /\ country_scores = <<>>
  /\ country_artists = <<>>
  /\ wbuf = <<>>
  /\ wpos = 0
  /\ failed_pairs = {}

\* main is not running
IdleMain ==
  /\ m_pc = "idle"
  /\ MemoryGone
  /\ file = NoFile
  /\ file0 = NoFile
  /\ fs_ops = 0

\* neither the map-rendering job nor the dashboard is running
IdleJoin ==
  /\ job = "none"
  /\ bfile = [columns |-> <<>>, rows |-> <<>>]
  /\ snapshot = EmptyResult
  /\ world = [ok |-> FALSE, iso_col |-> 0, codes |-> <<>>]
  /\ merged_total = <<>>
  /\ genre_maps = <<>>
  /\ j_pc = "idle"

\* no aggregation in progress
IdleAgg ==
  /\ a_tracks = <<>>
  /\ a_top_n = 0
  /\ a_i = 0
  /\ artist_scores = <<>>
  /\ a_pc = "idle"
  /\ a_ret = <<>>

\* no collector in progress
IdleColl ==
  /\ c_kind = "none"
  /\ total = 0
  /\ offset = 0
  /\ collected = <<>>
  /\ requested = <<>>
  /\ pages = <<>>
  /\ c_pc = "idle"
  /\ c_ret = <<>>

\* one iteration of the loop at lines 47-62
Attempt ==
  /\ sr_pc = "loop"
  /\ attempt <= MaxAttempts
  /\ \E o \in Outcomes :
       LET b == LoopBody(attempt, o) IN
         /\ events' = events \o <<Request(attempt, o)>> \o b.sleeps
         /\ attempt' = IF b.ctl = "continue" THEN attempt + 1 ELSE attempt
         /\ sr_pc' = PcOf(b.ctl)
         /\ sr_ret' = b.ret
  /\ UNCHANGED notFetch

\* lines 63-64: the loop ran out of attempts
Exhausted ==
  /\ sr_pc = "loop"
  /\ attempt > MaxAttempts
  /\ sr_pc' = "returned"
  /\ sr_ret' = None
  /\ UNCHANGED <<attempt, events>>
  /\ UNCHANGED notFetch

Init == InitFetch /\ IdleColl /\ IdleMain /\ IdleJoin /\ IdleAgg
Next == Attempt \/ Exhausted
Spec == Init /\ [][Next]_vars

\* The whole call as a function of what the network answers on attempts
\* 1..MaxAttempts.
RECURSIVE safe_request_from(_, _)
safe_request_from(a, script) ==
  IF a > MaxAttempts THEN [ctl |-> "return", ret |-> None]
  ELSE LET b == LoopBody(a, script[a]) IN
       IF b.ctl = "continue" THEN safe_request_from(a + 1, script)
       ELSE [ctl |-> b.ctl, ret |-> b.ret]

safe_request(script) == safe_request_from(1, script)

\* ------------------------------------------------------------------------
\* Paginated collectors: get_all_categories, fetch_genre_tracks
\* ------------------------------------------------------------------------
\* batch = 50
batch == 50

\* the model draws totals up to MaxFullPages full pages (plus one item) and
\* pages holding up to batch + MaxExtraItems items
MaxFullPages == 2
MaxExtraItems == 1

Totals ==
  {0, 1, batch + (batch \div 2)}
    \cup {k * batch : k \in 1..MaxFullPages}
    \cup {k * batch + 1 : k \in 1..MaxFullPages}

PageLens == {0, 1, batch - 1, batch, batch + MaxExtraItems}

StatusOutcome(st) == [kind |-> "status", status |-> st, retry_after |-> Absent]
TransportError == [kind |-> "transport", status |-> 0, retry_after |-> Absent]
ScriptOf(first, rest) == [a \in 1..MaxAttempts |-> IF a = 1 THEN first ELSE rest]

\* what the network answers on the attempts of one safe_request call
Scripts ==
  { ScriptOf(StatusOutcome(200), StatusOutcome(200)),
    ScriptOf(StatusOutcome(429), StatusOutcome(200)),
    ScriptOf(StatusOutcome(404), StatusOutcome(200)),
    ScriptOf(StatusOutcome(500), StatusOutcome(503)),
    ScriptOf(TransportError, TransportError),
    ScriptOf([kind |-> "status", status |-> 429,
              retry_after |-> Header(<<"W", "e", "d", ",", " ", "2", "1">>)],
             StatusOutcome(200)) }

\* resp.json(): a decoded body, or a body that is not JSON (json() raises)
NotJson == [json |-> FALSE, items |-> <<>>]
JsonBody(items) == [json |-> TRUE, items |-> items]

\* the n items a server holds at offset off .. off + n - 1
PageItems(kind, off, n) ==
  [k \in 1..n |->
     IF kind = "categories"
       THEN [name |-> off + k, id |-> 1000 + off + k]
       ELSE [id |-> off + k]]

BodiesAt(kind, off) ==
  {NotJson} \cup {JsonBody(PageItems(kind, off, n)) : n \in PageLens}

\* categories.extend((i['name'], i['id']) for i in items) / all_tracks.extend(items)
Extract(kind, items) ==
  IF kind = "categories"
    THEN [k \in 1..Len(items) |-> <<items[k].name, items[k].id>>]
    ELSE items

\* (mutation) the final slice is forgotten
Truncate_Whole(list, n) == list

\* list[:n]
Truncate(list, n) == SubSeq(list, 1, IF Len(list) < n THEN Len(list) ELSE n)

\* One pass through the body of the pagination loop: r is what safe_request
\* gave, body what resp.json() gives.
CollectStep(kind, acc, r, body) ==
  IF r.ctl = "raise" THEN [ctl |-> "raise", acc |-> acc]
  ELSE IF r.ret = None THEN [ctl |-> "break", acc |-> acc]
  ELSE IF ~body.json THEN [ctl |-> "raise", acc |-> acc]
  ELSE IF body.items = <<>> THEN [ctl |-> "break", acc |-> acc]
  ELSE LET acc2 == acc \o Extract(kind, body.items) IN
       IF Len(body.items) < batch THEN [ctl |-> "break", acc |-> acc2]
       ELSE [ctl |-> "next", acc |-> acc2]

\* the page as the loop saw it
PageSeen(r, body) ==
  IF r.ctl = "raise" THEN [got |-> "raise", items |-> <<>>]
  ELSE IF r.ret = None THEN [got |-> "none", items |-> <<>>]
  ELSE IF ~body.json THEN [got |-> "notjson", items |-> <<>>]
  ELSE [got |-> "items", items |-> body.items]

InitColl ==
  /\ c_kind \in {"categories", "tracks"}
  /\ total \in Totals
  /\ offset = 0
  /\ collected = <<>>
  /\ requested = <<>>
  /\ pages = <<>>
  /\ c_pc = "loop"
  /\ c_ret = <<>>

\* one iteration of `for offset in range(0, total, batch)`
CollectPage ==
  /\ c_pc = "loop"
  /\ offset < total
  /\ \E script \in Scripts, body \in BodiesAt(c_kind, offset) :
       LET r == safe_request(script)
           st == CollectStep(c_kind, collected, r, body)
       IN  /\ requested' = Append(requested, offset)
           /\ pages' = Append(pages, PageSeen(r, body))
           /\ collected' = st.acc
           /\ offset' = IF st.ctl = "next" THEN offset + batch ELSE offset
           /\ c_pc' = CASE st.ctl = "next" -> "loop"
                        [] st.ctl = "break" -> "after_loop"
                        [] st.ctl = "raise" -> "raised"
  /\ UNCHANGED <<c_kind, total, c_ret>>
  /\ UNCHANGED notColl

\* return categories[:total] / return all_tracks[:total_tracks]
CollectReturn ==
  /\ c_pc = "after_loop" \/ (c_pc = "loop" /\ offset >= total)
  /\ c_ret' = Truncate(collected, total)
  /\ c_pc' = "returned"
  /\ UNCHANGED <<c_kind, total, offset, collected, requested, pages>>
  /\ UNCHANGED notColl

NextCollector == CollectPage \/ CollectReturn
InitCollector == IdleFetch /\ InitColl /\ IdleMain /\ IdleJoin /\ IdleAgg
SpecCollector == InitCollector /\ [][NextCollector]_vars

\* ------------------------------------------------------------------------
\* main: the snapshot builder
\* ------------------------------------------------------------------------
\* config.yaml of the modelled deployment (cfg.get(...), lines 30-34)
MARKETS_LIMIT == 2
GENRES_LIMIT == 2
TRACKS_LIMIT == 2
TOP_N_GENRES == 1
TOP_N_ARTISTS == 1

\* Python dicts keep insertion order: a dict is a list of <<key, value>>.
DictHas(d, k) == \E i \in 1..Len(d) : d[i][1] = k
DictGet(d, k) == d[CHOOSE i \in 1..Len(d) : d[i][1] = k][2]
DictSet(d, k, v) ==
  IF DictHas(d, k)
    THEN [i \in 1..Len(d) |-> IF d[i][1] = k THEN <<k, v>> ELSE d[i]]
    ELSE Append(d, <<k, v>>)
DictKeys(d) == {d[i][1] : i \in 1..Len(d)}

\* t.get('popularity', 0)
Popularity(t) == IF "popularity" \in DOMAIN t THEN t.popularity ELSE 0

\* sum(t.get('popularity', 0) for t in tracks)
RECURSIVE SumPopularity(_)
SumPopularity(tracks) ==
  IF tracks = <<>> THEN 0 ELSE Popularity(Head(tracks)) + SumPopularity(Tail(tracks))

\* (mutation) an unstable sort: of two equal scores the later one comes first
RECURSIVE InsertDesc_TiesReversed(_, _)
InsertDesc_TiesReversed(sorted, x) ==
  IF sorted = <<>> THEN <<x>>
  ELSE IF Head(sorted)[2] > x[2] THEN <<Head(sorted)>> \o InsertDesc_TiesReversed(Tail(sorted), x)
  ELSE <<x>> \o sorted

\* (mutation) reverse=True is forgotten: ascending order
RECURSIVE InsertDesc_Ascending(_, _)
InsertDesc_Ascending(sorted, x) ==
  IF sorted = <<>> THEN <<x>>
  ELSE IF Head(sorted)[2] <= x[2] THEN <<Head(sorted)>> \o InsertDesc_Ascending(Tail(sorted), x)
  ELSE <<x>> \o sorted

\* sorted(pairs, key=lambda x: x[1], reverse=True): stable, descending
RECURSIVE InsertDesc(_, _)
InsertDesc(sorted, x) ==
  IF sorted = <<>> THEN <<x>>
  ELSE IF Head(sorted)[2] >= x[2] THEN <<Head(sorted)>> \o InsertDesc(Tail(sorted), x)
  ELSE <<x>> \o sorted

RECURSIVE SortedFrom(_, _)
SortedFrom(done, rest) ==
  IF rest = <<>> THEN done ELSE SortedFrom(InsertDesc(done, Head(rest)), Tail(rest))

SortedDesc(pairs) == SortedFrom(<<>>, pairs)

\* (mutation) artists[-1] instead of artists[0]
RECURSIVE ArtistScores_LastArtist(_, _)
ArtistScores_LastArtist(tracks, acc) ==
  IF tracks = <<>> THEN acc
  ELSE LET t == Head(tracks) IN
       IF t.artists = <<>> THEN ArtistScores_LastArtist(Tail(tracks), acc)
       ELSE LET primary_name == t.artists[Len(t.artists)].name
                before == IF DictHas(acc, primary_name) THEN DictGet(acc, primary_name) ELSE 0
            IN  ArtistScores_LastArtist(Tail(tracks),
                                        DictSet(acc, primary_name, before + Popularity(t)))

\* lines 170-177: credit each track's popularity to its first artist
RECURSIVE ArtistScores(_, _)
ArtistScores(tracks, acc) ==
  IF tracks = <<>> THEN acc
  ELSE LET t == Head(tracks) IN
       IF t.artists = <<>> THEN ArtistScores(Tail(tracks), acc)
       ELSE LET primary_name == t.artists[1].name
                before == IF DictHas(acc, primary_name) THEN DictGet(acc, primary_name) ELSE 0
            IN  ArtistScores(Tail(tracks), DictSet(acc, primary_name, before + Popularity(t)))

\* lines 178-179
TopArtists(tracks, top_n) == Truncate(SortedDesc(ArtistScores(tracks, <<>>)), top_n)

\* number of offsets of range(0, tot, batch)
NumPages(tot) == (tot + batch - 1) \div batch

\* A whole collector call; srv[k] is what the k-th request meets: the result
\* r of safe_request and the body of the response.
RECURSIVE Collect(_, _, _, _, _)
Collect(kind, tot, off, acc, srv) ==
  IF off >= tot THEN [ctl |-> "return", list |-> Truncate(acc, tot), failed |-> FALSE]
  ELSE LET a  == srv[(off \div batch) + 1]
           st == CollectStep(kind, acc, a.r, a.body)
       IN  IF st.ctl = "raise" THEN [ctl |-> "raise", list |-> <<>>, failed |-> FALSE]
           ELSE IF st.ctl = "break"
             THEN [ctl |-> "return", list |-> Truncate(st.acc, tot),
                   failed |-> (off = 0 /\ a.r.ret = None)]
           ELSE Collect(kind, tot, off + batch, st.acc, srv)

get_all_categories(tot, srv) == Collect("categories", tot, 0, <<>>, srv)
fetch_genre_tracks(tot, srv) == Collect("tracks", tot, 0, <<>>, srv)

\* lines 162-179
fetch_top_artists_for_genre(tot, top_n, srv) ==
  LET c == fetch_genre_tracks(tot, srv) IN
  IF c.ctl = "raise" THEN c
  ELSE [ctl |-> "return", list |-> TopArtists(c.list, top_n), failed |-> c.failed]

\* every result safe_request can hand to its caller
FetchResults == {safe_request(script) : script \in Scripts}

Answers(bodies) == {[r |-> r, body |-> b] : r \in FetchResults, b \in bodies}
Servers(tot, bodies) == [1..NumPages(tot) -> Answers(bodies)]

Track(pop, names) == [popularity |-> pop, artists |-> [k \in 1..Len(names) |-> [name |-> names[k]]]]

\* what the search endpoint holds for a genre
ServerTracks == <<Track(10, <<"A">>), Track(20, <<"B", "A">>), Track(5, <<"A">>)>>
TrackBodies == {JsonBody(ServerTracks)}

Category(n) == [name |-> n, id |-> <<"id", n>>]
CategoryBodies ==
  { JsonBody(<<>>), JsonBody(<<Category("pop")>>),
    JsonBody(<<Category("pop"), Category("rock"), Category("jazz")>>) }

MarketBodies ==
  {JsonBody(<<>>), JsonBody(<<US>>), JsonBody(<<US, GB, FR>>)}

TokenBodies ==
  { [json |-> TRUE, access_token |-> None],
    [json |-> TRUE, access_token |-> Some("")],
    [json |-> TRUE, access_token |-> Some("tok")] }

\* (mutation) `token is None` instead of `not token`
Falsy_NoneOnly(t) == t = None

\* `not token`
Falsy(t) == t = None \/ t = Some("")

\* json.dump writes the document to f piece by piece
Chunks(res) ==
  << [key |-> "top_genres", val |-> res.top_genres],
     [key |-> "country_genre_popularity", val |-> res.country_genre_popularity],
     [key |-> "top_artists", val |-> res.top_artists] >>

\* a snapshot written by an earlier run
OldResult ==
  [top_genres |-> <<"old">>,
   country_genre_popularity |-> << <<FR, << <<"old", 1>> >> >> >>,
   top_artists |-> << <<FR, << <<"old", << <<"Z", 1>> >> >> >> >> >>]

Running == {"AUTH", "DISCOVER_GENRES", "GLOBAL_SCORES", "DISCOVER_MARKETS",
            "PER_MARKET", "PERSIST"}

InitMain ==
  /\ m_pc = "AUTH"
  /\ MemoryGone
  /\ file \in {NoFile, FileOf(Chunks(OldResult))}
  /\ file0 = file
  /\ fs_ops = 0

Raise == m_pc' = "raised"

\* lines 185-188, get_token (69-78)
GetToken ==
  /\ m_pc = "AUTH"
  /\ \E a \in Answers(TokenBodies) :
       IF a.r.ctl = "raise" \/ (a.r.ret # None /\ ~a.body.json)
         THEN Raise /\ UNCHANGED token
       ELSE LET t == IF a.r.ret = None THEN None ELSE a.body.access_token IN
            /\ token' = t
            /\ m_pc' = IF Falsy(t) THEN "aborted_no_token" ELSE "DISCOVER_GENRES"
  /\ UNCHANGED <<categories, global_scores, top_genres, markets, result, mi, gi,
                 country_scores, country_artists, file, wbuf, wpos, file0, fs_ops,
                 failed_pairs>>
  /\ UNCHANGED notMain

\* line 190
GetCategories ==
  /\ m_pc = "DISCOVER_GENRES"
  /\ \E srv \in Servers(GENRES_LIMIT, CategoryBodies) :
       LET c == get_all_categories(GENRES_LIMIT, srv) IN
       IF c.ctl = "raise" THEN Raise /\ UNCHANGED categories
       ELSE categories' = c.list /\ m_pc' = "GLOBAL_SCORES"
  /\ UNCHANGED <<token, global_scores, top_genres, markets, result, mi, gi,
                 country_scores, country_artists, file, wbuf, wpos, file0, fs_ops,
                 failed_pairs>>
  /\ UNCHANGED notMain

\* lines 192-197: one iteration of the loop over categories
GlobalScore ==
  /\ m_pc = "GLOBAL_SCORES"
  /\ Len(global_scores) < Len(categories)
  /\ \E srv \in Servers(TRACKS_LIMIT, TrackBodies) :
       LET name == categories[Len(global_scores) + 1][1]
           c == fetch_genre_tracks(TRACKS_LIMIT, srv)
       IN  IF c.ctl = "raise" THEN Raise /\ UNCHANGED global_scores
           ELSE /\ global_scores' = Append(global_scores, <<name, SumPopularity(c.list)>>)
                /\ UNCHANGED m_pc
  /\ UNCHANGED <<token, categories, top_genres, markets, result, mi, gi,
                 country_scores, country_artists, file, wbuf, wpos, file0, fs_ops,
                 failed_pairs>>
  /\ UNCHANGED notMain

\* line 199
SelectTopGenres ==
  /\ m_pc = "GLOBAL_SCORES"
  /\ Len(global_scores) = Len(categories)
  /\ top_genres' = LET best == Truncate(SortedDesc(global_scores), TOP_N_GENRES)
                   IN  [k \in 1..Len(best) |-> best[k][1]]
  /\ m_pc' = "DISCOVER_MARKETS"
  /\ UNCHANGED <<token, categories, global_scores, markets, result, mi, gi,
                 country_scores, country_artists, file, wbuf, wpos, file0, fs_ops,
                 failed_pairs>>
  /\ UNCHANGED notMain

\* lines 202-211, get_markets (146-157)
GetMarkets ==
  /\ m_pc = "DISCOVER_MARKETS"
  /\ \E a \in Answers(MarketBodies) :
       IF a.r.ctl = "raise" \/ (a.r.ret # None /\ ~a.body.json)
         THEN Raise /\ UNCHANGED <<markets, result, mi, gi>>
       ELSE LET ms == IF a.r.ret = None THEN <<>> ELSE Truncate(a.body.items, MARKETS_LIMIT) IN
            /\ markets' = ms
            /\ IF ms = <<>>
                 THEN m_pc' = "aborted_no_markets" /\ UNCHANGED <<result, mi, gi>>
                 ELSE /\ m_pc' = "PER_MARKET"
                      /\ result' = [top_genres |-> top_genres,
                                    country_genre_popularity |-> <<>>,
                                    top_artists |-> <<>>]
                      /\ mi' = 1
                      /\ gi' = 1
  /\ UNCHANGED <<token, categories, global_scores, top_genres, country_scores,
                 country_artists, file, wbuf, wpos, file0, fs_ops, failed_pairs>>
  /\ UNCHANGED notMain

\* lines 217-223: one iteration of the loop over top_genres for markets[mi]
PairStep ==
  /\ m_pc = "PER_MARKET"
  /\ mi <= Len(markets)
  /\ gi <= Len(top_genres)
  /\ \E srv1 \in Servers(TRACKS_LIMIT, TrackBodies),
        srv2 \in Servers(TRACKS_LIMIT, TrackBodies) :
       LET market == markets[mi]
           genre  == top_genres[gi]
           c1 == fetch_genre_tracks(TRACKS_LIMIT, srv1)
           c2 == fetch_top_artists_for_genre(TRACKS_LIMIT, TOP_N_ARTISTS, srv2)
       IN  IF c1.ctl = "raise" \/ c2.ctl = "raise"
             THEN Raise /\ UNCHANGED <<country_scores, country_artists, gi, failed_pairs>>
           ELSE /\ country_scores' = DictSet(country_scores, genre, SumPopularity(c1.list))
                /\ country_artists' = DictSet(country_artists, genre, c2.list)
                /\ gi' = gi + 1
                /\ failed_pairs' = IF c1.failed /\ c2.failed
                                     THEN failed_pairs \cup {<<market, genre>>}
                                     ELSE failed_pairs
                /\ UNCHANGED m_pc
  /\ UNCHANGED <<token, categories, global_scores, top_genres, markets, result, mi,
                 file, wbuf, wpos, file0, fs_ops>>
  /\ UNCHANGED notMain

\* lines 225-226 and the next pass of the loop over markets (lines 213-216)
MarketDone ==
  /\ m_pc = "PER_MARKET"
  /\ mi <= Len(markets)
  /\ gi > Len(top_genres)
  /\ result' = [result EXCEPT
       !.country_genre_popularity = DictSet(@, markets[mi], country_scores),
       !.top_artists = DictSet(@, markets[mi], country_artists)]
  /\ mi' = mi + 1
  /\ gi' = 1
  /\ country_scores' = <<>>
  /\ country_artists' = <<>>
  /\ UNCHANGED <<m_pc, token, categories, global_scores, top_genres, markets,
                 file, wbuf, wpos, file0, fs_ops, failed_pairs>>
  /\ UNCHANGED notMain

\* line 228: open(OUTPUT_JSON, 'w') creates the file or truncates it
OpenFile ==
  /\ m_pc = "PER_MARKET"
  /\ mi > Len(markets)
  /\ file' = FileOf(<<>>)
  /\ wbuf' = <<>>
  /\ wpos' = 0
  /\ fs_ops' = fs_ops + 1
  /\ m_pc' = "PERSIST"
  /\ UNCHANGED <<token, categories, global_scores, top_genres, markets, result, mi, gi,
                 country_scores, country_artists, file0, failed_pairs>>
  /\ UNCHANGED notMain

\* line 229: json.dump writes the next piece to f (into its buffer)
DumpChunk ==
  /\ m_pc = "PERSIST"
  /\ wpos < Len(Chunks(result))
  /\ wbuf' = Append(wbuf, Chunks(result)[wpos + 1])
  /\ wpos' = wpos + 1
  /\ fs_ops' = fs_ops + 1
  /\ UNCHANGED <<m_pc, token, categories, global_scores, top_genres, markets, result,
                 mi, gi, country_scores, country_artists, file, file0, failed_pairs>>
  /\ UNCHANGED notMain

\* the buffer of f filled up: its content goes to disk
FlushBuffer ==
  /\ m_pc = "PERSIST"
  /\ wbuf # <<>>
  /\ file' = FileOf(file.content \o wbuf)
  /\ wbuf' = <<>>
  /\ UNCHANGED <<m_pc, token, categories, global_scores, top_genres, markets, result,
                 mi, gi, country_scores, country_artists, wpos, file0, fs_ops,
                 failed_pairs>>
  /\ UNCHANGED notMain

\* end of the with block (line 229-230): f is flushed and closed
CloseFile ==
  /\ m_pc = "PERSIST"
  /\ wpos = Len(Chunks(result))
  /\ file' = FileOf(file.content \o wbuf)
  /\ wbuf' = <<>>
  /\ m_pc' = "done"
  /\ UNCHANGED <<token, categories, global_scores, top_genres, markets, result,
                 mi, gi, country_scores, country_artists, wpos, file0, fs_ops,
                 failed_pairs>>
  /\ UNCHANGED notMain

\* The process is interrupted (main installs no handler): a KeyboardInterrupt
\* leaves the with block, which flushes f; a kill loses the buffer.  The
\* memory of the process is gone, the file stays as it is.
Interrupt ==
  /\ m_pc \in Running
  /\ m_pc' = "interrupted"
  /\ \E flushed \in BOOLEAN :
       file' = IF m_pc = "PERSIST" /\ flushed THEN FileOf(file.content \o wbuf) ELSE file
  /\ token' = None
  /\ categories' = <<>>
  /\ global_scores' = <<>>
  /\ top_genres' = <<>>
  /\ markets' = <<>>
  /\ result' = EmptyResult
  /\ mi' = 0
  /\ gi' = 0
  /\ country_scores' = <<>>
  /\ country_artists' = <<>>
  /\ wbuf' = <<>>
  /\ wpos' = 0
  /\ failed_pairs' = {}
  /\ UNCHANGED <<file0, fs_ops>>
  /\ UNCHANGED notMain

InitSnapshot == IdleFetch /\ IdleColl /\ InitMain /\ IdleJoin /\ IdleAgg
NextMain ==
  \/ GetToken \/ GetCategories \/ GlobalScore \/ SelectTopGenres \/ GetMarkets
  \/ PairStep \/ MarketDone \/ OpenFile \/ DumpChunk \/ FlushBuffer \/ CloseFile
  \/ Interrupt
SpecMain == InitSnapshot /\ [][NextMain]_vars

\* ------------------------------------------------------------------------
\* fetch_top_artists_for_genre, lines 170-179: the aggregation of the tracks
\* of one (genre, market) scope
\* ------------------------------------------------------------------------
\* the track lists drawn hold up to MaxTracks tracks
MaxTracks == 3

TrackPopularities == {5, 10, 20}
TrackArtists == {<<>>, <<"A">>, <<"B">>, <<"B", "A">>}
TracksDrawn == {Track(pop, names) : pop \in TrackPopularities, names \in TrackArtists}
TrackLists == UNION {[1..n -> TracksDrawn] : n \in 0..MaxTracks}
TopNs == 1..3

\* line 169 has returned tracks; line 170
InitAgg ==
  /\ a_tracks \in TrackLists
  /\ a_top_n \in TopNs
  /\ a_i = 1
  /\ artist_scores = <<>>
  /\ a_pc = "loop"
  /\ a_ret = <<>>

\* lines 171-177: one iteration of `for t in tracks`
CreditTrack ==
  /\ a_pc = "loop"
  /\ a_i <= Len(a_tracks)
  /\ artist_scores' = ArtistScores(<<a_tracks[a_i]>>, artist_scores)
  /\ a_i' = a_i + 1
  /\ UNCHANGED <<a_tracks, a_top_n, a_pc, a_ret>>
  /\ UNCHANGED notAgg

\* lines 178-179
RankArtists ==
  /\ a_pc = "loop"
  /\ a_i > Len(a_tracks)
  /\ a_ret' = Truncate(SortedDesc(artist_scores), a_top_n)
  /\ a_pc' = "returned"
  /\ UNCHANGED <<a_tracks, a_top_n, a_i, artist_scores>>
  /\ UNCHANGED notAgg

InitAggregator == IdleFetch /\ IdleColl /\ IdleMain /\ IdleJoin /\ InitAgg
NextAgg == CreditTrack \/ RankArtists
SpecAgg == InitAggregator /\ [][NextAgg]_vars

\* ------------------------------------------------------------------------
\* The jobs that join the snapshot with the country boundaries:
\* prepare_and_render_maps.py ("render") and app.py ("dashboard")
\* ------------------------------------------------------------------------
LowerLetters == <<"a", "b", "c", "d", "e", "f", "g", "h", "i", "j", "k", "l", "m",
                  "n", "o", "p", "q", "r", "s", "t", "u", "v", "w", "x", "y", "z">>
UpperLetters == <<"A", "B", "C", "D", "E", "F", "G", "H", "I", "J", "K", "L", "M",
                  "N", "O", "P", "Q", "R", "S", "T", "U", "V", "W", "X", "Y", "Z">>

UpperChar(c) ==
  IF \E i \in 1..26 : LowerLetters[i] = c
    THEN UpperLetters[CHOOSE i \in 1..26 : LowerLetters[i] = c] ELSE c
LowerChar(c) ==
  IF \E i \in 1..26 : UpperLetters[i] = c
    THEN LowerLetters[CHOOSE i \in 1..26 : UpperLetters[i] = c] ELSE c

\* str.upper() / str.lower()
Upper(str) == [i \in 1..Len(str) |-> UpperChar(str[i])]
Lower(str) == [i \in 1..Len(str) |-> LowerChar(str[i])]

\* str.startswith(prefix) / `ch in str`
StartsWith(str, prefix) ==
  Len(str) >= Len(prefix) /\ SubSeq(str, 1, Len(prefix)) = prefix
Contains(str, ch) == \E i \in 1..Len(str) : str[i] = ch

\* prepare_and_render_maps.py line 42
IsoAliases ==
  { ISO_A2_LOWER, ISO2_LOWER, ISO_3166_LOWER, ISO3166_LOWER }

\* lines 41-46: the first column whose lower-cased name is an alias; 0 when
\* there is none (RuntimeError)
RenderIsoColumn(columns) ==
  LET hits == {i \in 1..Len(columns) : Lower(columns[i]) \in IsoAliases} IN
  IF hits = {} THEN 0 ELSE CHOOSE i \in hits : \A j \in hits : i <= j

\* app.py line 25: the last column whose lower-cased name starts with "iso"
\* and whose name contains "2"; 0 when there is none (IndexError)
DashboardIsoColumn(columns) ==
  LET hits == {i \in 1..Len(columns) :
                 StartsWith(Lower(columns[i]), <<"i", "s", "o">>) /\ Contains(columns[i], "2")}
  IN  IF hits = {} THEN 0 ELSE CHOOSE i \in hits : \A j \in hits : i >= j

\* rename to iso_a2 and upper-case the values (lines 43-47 / app.py 26-27)
Normalize(bf, col) ==
  IF col = 0 THEN [ok |-> FALSE, iso_col |-> 0, codes |-> <<>>]
  ELSE [ok |-> TRUE, iso_col |-> col,
        codes |-> [i \in 1..Len(bf.rows) |-> Upper(bf.rows[i][col])]]

\* a table cell: a value, or NaN after a left merge found no match
Cell(v) == [nan |-> FALSE, v |-> v]
NaNNum == [nan |-> TRUE, v |-> 0]
NaNStr == [nan |-> TRUE, v |-> <<>>]

\* sum(vals.values())
RECURSIVE SumValues(_)
SumValues(d) == IF d = <<>> THEN 0 ELSE Head(d)[2] + SumValues(Tail(d))

\* sep.join(parts): strings are lists of tokens here (names, numbers and the
\* literal pieces between them)
RECURSIVE JoinTokens(_, _)
JoinTokens(sep, parts) ==
  IF parts = <<>> THEN <<>>
  ELSE IF Len(parts) = 1 THEN parts[1]
  ELSE parts[1] \o sep \o JoinTokens(sep, Tail(parts))

\* f"{g}: {v}"  and  f"{g} ({v})"
FmtRender(pair) == <<pair[1], ": ", pair[2]>>
FmtDashboard(pair) == <<pair[1], " (", pair[2], ")">>

\* `text or default`
OrElse(text, default) == IF text = <<>> THEN default ELSE text

Top5(pairs) == Truncate(SortedDesc(pairs), 5)

\* prepare_and_render_maps.py lines 60-67
RenderTotalRecords(popularity) ==
  [i \in 1..Len(popularity) |->
     LET vals == popularity[i][2]
         top5 == Top5(vals)
     IN  [iso_a2 |-> Upper(popularity[i][1]),
          value |-> SumValues(vals),
          tip |-> JoinTokens(<<"<br>">>, [k \in 1..Len(top5) |-> FmtRender(top5[k])])]]

\* app.py lines 36-48
DashboardTotalRecords(country_pop) ==
  [i \in 1..Len(country_pop) |->
     LET vals == country_pop[i][2]
         sorted_genres == Top5(vals)
     IN  [iso_a2 |-> Upper(country_pop[i][1]),
          value |-> SumValues(vals),
          tip |-> JoinTokens(<<", ">>, [k \in 1..Len(sorted_genres) |-> FmtDashboard(sorted_genres[k])])]]

\* d.get(k, default)
GetOr(d, k, default) == IF DictHas(d, k) THEN DictGet(d, k) ELSE default

\* prepare_and_render_maps.py lines 105-112
RenderGenreRecords(popularity, artists, genre) ==
  [i \in 1..Len(popularity) |->
     LET iso2  == popularity[i][1]
         top5a == Truncate(GetOr(GetOr(artists, iso2, <<>>), genre, <<>>), 5)
     IN  [iso_a2 |-> Upper(iso2),
          value |-> GetOr(popularity[i][2], genre, 0),
          tip |-> OrElse(JoinTokens(<<"<br>">>, [k \in 1..Len(top5a) |-> FmtRender(top5a[k])]),
                         <<"No artists">>)]]

\* app.py lines 87-92: the records carry no tooltip
DashboardGenreRecords(country_pop, country_art, genre) ==
  [i \in 1..Len(country_art) |->
     [iso_a2 |-> Upper(country_art[i][1]),
      value |-> GetOr(DictGet(country_pop, country_art[i][1]), genre, 0),
      tip |-> <<>>]]

\* app.py lines 93-95: country_tooltips
DashboardTooltips(country_art, genre) ==
  [i \in 1..Len(country_art) |->
     LET top5 == Truncate(GetOr(country_art[i][2], genre, <<>>), 5) IN
     << Upper(country_art[i][1]),
        OrElse(JoinTokens(<<", ">>, [k \in 1..Len(top5) |-> FmtDashboard(top5[k])]),
               <<"None">>) >>]

\* a dict built by assigning the pairs in order
RECURSIVE DictFrom(_, _)
DictFrom(acc, pairs) ==
  IF pairs = <<>> THEN acc
  ELSE DictFrom(DictSet(acc, Head(pairs)[1], Head(pairs)[2]), Tail(pairs))

\* world.merge(df, how="left", on="iso_a2"): every boundary record is kept,
\* once per matching record of df, or once with NaN when nothing matches
RECURSIVE LeftMergeFrom(_, _, _)
LeftMergeFrom(i, codes, recs) ==
  IF i > Len(codes) THEN <<>>
  ELSE LET ms == SelectSeq(recs, LAMBDA r : r.iso_a2 = codes[i])
           rows == IF ms = <<>>
                     THEN <<[rec |-> i, iso_a2 |-> codes[i], value |-> NaNNum, tip |-> NaNStr]>>
                     ELSE [k \in 1..Len(ms) |->
                             [rec |-> i, iso_a2 |-> codes[i],
                              value |-> Cell(ms[k].value), tip |-> Cell(ms[k].tip)]]
       IN  rows \o LeftMergeFrom(i + 1, codes, recs)

LeftMerge(codes, recs) == LeftMergeFrom(1, codes, recs)

\* column.fillna(x)
FillValue(rows, x) ==
  [k \in 1..Len(rows) |-> [rows[k] EXCEPT !.value = IF @.nan THEN Cell(x) ELSE @]]
FillTip(rows, x) ==
  [k \in 1..Len(rows) |-> [rows[k] EXCEPT !.tip = IF @.nan THEN Cell(x) ELSE @]]

\* merged_g["top5"] = merged_g["iso_a2"].map(country_tooltips)
MapTip(rows, tooltips) ==
  [k \in 1..Len(rows) |->
     [rows[k] EXCEPT !.tip = IF DictHas(tooltips, rows[k].iso_a2)
                               THEN Cell(DictGet(tooltips, rows[k].iso_a2))
                               ELSE NaNStr]]

\* prepare_and_render_maps.py lines 72-74
RenderMergedTotal(codes, snap) ==
  FillTip(FillValue(LeftMerge(codes, RenderTotalRecords(snap.country_genre_popularity)), 0),
          <<"No data">>)

\* app.py line 50
DashboardMergedTot(codes, snap) ==
  FillTip(FillValue(LeftMerge(codes, DashboardTotalRecords(snap.country_genre_popularity)), 0),
          <<"None">>)

\* prepare_and_render_maps.py lines 113-115
RenderMergedG(codes, snap, genre) ==
  FillTip(FillValue(LeftMerge(codes,
            RenderGenreRecords(snap.country_genre_popularity, snap.top_artists, genre)), 0),
          <<"No data">>)

\* app.py lines 98-103
DashboardMergedG(codes, snap, genre) ==
  MapTip(FillValue(LeftMerge(codes,
           DashboardGenreRecords(snap.country_genre_popularity, snap.top_artists, genre)), 0),
         DictFrom(<<>>, DashboardTooltips(snap.top_artists, genre)))

\* the snapshots drawn hold up to MaxGenres genres
MaxGenres == 6

GenreNames == <<"G1", "G2", "G3", "G4", "G5", "G6", "G7", "G8">>
GenreLists == {SubSeq(GenreNames, 1, 2), SubSeq(GenreNames, 1, MaxGenres)}

\* the scores of one country, genre by genre
ScorePatterns(n) ==
  { [j \in 1..n |-> IF j = 1 THEN 10 ELSE IF j = 2 THEN 20 ELSE j],
    [j \in 1..n |-> IF j = 1 THEN 5 ELSE 0],
    [j \in 1..n |-> 7],
    [j \in 1..n |-> (j * 3) % 5] }

MarketLists == {<<US, GB>>, <<US>>, <<gb>>}

\* a snapshot as main writes it: every market has an entry for every genre
SnapshotOf(genres, mkts, scores) ==
  [top_genres |-> genres,
   country_genre_popularity |->
     [i \in 1..Len(mkts) |->
        <<mkts[i], [j \in 1..Len(genres) |-> <<genres[j], scores[i][j]>>]>>],
   top_artists |->
     [i \in 1..Len(mkts) |->
        <<mkts[i], [j \in 1..Len(genres) |->
                      <<genres[j], IF scores[i][j] = 0 THEN <<>>
                                   ELSE << <<"A", scores[i][j]>> >> >>]>>]]

Snapshots ==
  UNION { UNION { {SnapshotOf(genres, mkts, scores) :
                     scores \in [1..Len(mkts) -> ScorePatterns(Len(genres))]} :
                  mkts \in MarketLists } :
          genres \in GenreLists }

\* boundary files: the columns, and which of them holds the ISO-2 code
Schemas ==
  { [columns |-> <<COL_ISO_A2, COL_NAME>>, iso2_at |-> 1],
    [columns |-> <<COL_NAME, COL_ISO3166_2, COL_ISO3166_3>>, iso2_at |-> 2],
    [columns |-> <<COL_NAME, COL_ADM0_A3>>, iso2_at |-> 0],
    [columns |-> <<COL_ISO_A2, COL_NAME, COL_ISO_A2_EH>>, iso2_at |-> 1],
    [columns |-> <<COL_NAME, COL_ISO_3166_2>>, iso2_at |-> 0] }

CodeLists == {<<US, GB>>, <<us, FR, GB>>, <<FR>>}

BoundaryFile(schema, codes) ==
  [columns |-> schema.columns,
   rows |-> [i \in 1..Len(codes) |->
               [k \in 1..Len(schema.columns) |->
                  IF k = schema.iso2_at THEN codes[i] ELSE <<"x">>]]]

BoundaryFiles == {BoundaryFile(schema, codes) : schema \in Schemas, codes \in CodeLists}

InitJoin ==
  /\ job \in {"render", "dashboard"}
  /\ bfile \in BoundaryFiles
  /\ snapshot \in Snapshots
  /\ world = [ok |-> FALSE, iso_col |-> 0, codes |-> <<>>]
  /\ merged_total = <<>>
  /\ genre_maps = <<>>
  /\ j_pc = "normalize"

\* prepare_and_render_maps.py lines 40-47 / app.py lines 22-27
NormalizeWorld ==
  /\ j_pc = "normalize"
  /\ LET col == IF job = "render" THEN RenderIsoColumn(bfile.columns)
                                  ELSE DashboardIsoColumn(bfile.columns)
         w == Normalize(bfile, col)
     IN  /\ world' = w
         /\ j_pc' = IF w.ok THEN "total" ELSE "raised"
  /\ UNCHANGED <<job, bfile, snapshot, merged_total, genre_maps>>
  /\ UNCHANGED notJoin

\* prepare_and_render_maps.py lines 60-74 / app.py lines 36-50
BuildTotal ==
  /\ j_pc = "total"
  /\ merged_total' = IF job = "render" THEN RenderMergedTotal(world.codes, snapshot)
                                       ELSE DashboardMergedTot(world.codes, snapshot)
  /\ j_pc' = "genres"
  /\ UNCHANGED <<job, bfile, snapshot, world, genre_maps>>
  /\ UNCHANGED notJoin

\* one iteration of `for genre in top_genres`
\* (prepare_and_render_maps.py lines 104-115 / app.py lines 86-103)
BuildGenre ==
  /\ j_pc = "genres"
  /\ Len(genre_maps) < Len(snapshot.top_genres)
  /\ LET genre == snapshot.top_genres[Len(genre_maps) + 1]
         merged_g == IF job = "render" THEN RenderMergedG(world.codes, snapshot, genre)
                                       ELSE DashboardMergedG(world.codes, snapshot, genre)
     IN  genre_maps' = Append(genre_maps, <<genre, merged_g>>)
  /\ UNCHANGED <<job, bfile, snapshot, world, merged_total, j_pc>>
  /\ UNCHANGED notJoin

\* the loop over top_genres is over
FinishJoin ==
  /\ j_pc = "genres"
  /\ Len(genre_maps) = Len(snapshot.top_genres)
  /\ j_pc' = "done"
  /\ UNCHANGED <<job, bfile, snapshot, world, merged_total, genre_maps>>
  /\ UNCHANGED notJoin

InitJoiner == IdleFetch /\ IdleColl /\ IdleMain /\ InitJoin /\ IdleAgg
NextJoin == NormalizeWorld \/ BuildTotal \/ BuildGenre \/ FinishJoin
SpecJoin == InitJoiner /\ [][NextJoin]_vars

\* ------------------------------------------------------------------------
\* Properties of safe_request
\* ------------------------------------------------------------------------
ReqIdx == {i \in 1..Len(events) : events[i].ev = "request"}
NumRequests == Cardinality(ReqIdx)
Is429(o) == o.kind = "status" /\ o.status = 429
FailedAttempt(o) == o.kind = "transport" \/ o.status >= 400
NonNumeric(h) == ~PyInt(h).ok
\* the header carries a delay in seconds: a non-negative integer
IsDelaySeconds(h) == h.present /\ PyInt(h.value).ok /\ PyInt(h.value).val >= 0

\* C1: safe_request never raises to its caller (it ends by returning a
\* response or None), and a 429 whose Retry-After header is absent or
\* non-numeric is followed by a 1-second sleep and a retry.
C1_NeverRaises ==
  /\ sr_pc # "raised"
  /\ \A i \in ReqIdx :
       LET o == events[i].outcome IN
       (Is429(o) /\ (~o.retry_after.present \/ NonNumeric(o.retry_after.value)))
         => /\ i < Len(events)
            /\ events[i + 1] = Sleep(1)
            /\ sr_pc = "loop" \/ i + 1 < Len(events) \/ events[i].attempt = MaxAttempts

\* C2: one call issues at most 3 requests, and a call whose 3 attempts all
\* failed has returned None.
C2_AtMostThreeThenNone ==
  /\ NumRequests <= 3
  /\ (sr_pc # "loop" /\ NumRequests = 3
        /\ \A i \in ReqIdx : FailedAttempt(events[i].outcome))
       => (sr_pc = "returned" /\ sr_ret = None)

\* C3: a 4xx status other than 429 ends the call at once with None: the
\* request that received it is the last event of the call (no later request,
\* no later sleep).
C3_ClientErrorReturnsAtOnce ==
  \A i \in ReqIdx :
    LET o == events[i].outcome IN
    (o.kind = "status" /\ 400 <= o.status /\ o.status <= 499 /\ o.status # 429)
      => /\ i = Len(events)
         /\ sr_pc = "returned"
         /\ sr_ret = None

\* a 404 on the first attempt: exactly one request, zero retries
C3_Witness ==
  /\ sr_pc = "returned"
  /\ sr_ret = None
  /\ Len(events) = 1
  /\ events[1].ev = "request"
  /\ events[1].outcome.status = 404
  /\ NumRequests = 1

\* C4: a 429 carrying a Retry-After value (a non-negative number of seconds) is followed by a sleep of exactly
\* that many seconds and then, while attempts remain, by nothing but the next
\* request; the call returns the response of the first attempt whose status is
\* below 400 and issues nothing after it (429 then 200: the 200's response
\* after two requests).
C4_RetryAfter429ThenFirstSuccess ==
  /\ \A i \in ReqIdx :
       LET o == events[i].outcome
           a == events[i].attempt
       IN  (Is429(o) /\ IsDelaySeconds(o.retry_after))
             => /\ i < Len(events)
                /\ events[i + 1].ev = "sleep"
                /\ o.retry_after.value = <<"0">> => events[i + 1].secs = 0
                /\ o.retry_after.value = <<"2">> => events[i + 1].secs = 2
                /\ o.retry_after.value = <<" ", "1">> => events[i + 1].secs = 1
                /\ a < MaxAttempts =>
                     IF i + 1 = Len(events)
                       THEN sr_pc = "loop" /\ attempt = a + 1
                       ELSE events[i + 2].ev = "request" /\ events[i + 2].attempt = a + 1
  /\ \A i \in ReqIdx :
       LET o == events[i].outcome IN
       (o.kind = "status" /\ o.status < 400)
         => /\ i = Len(events)
            /\ sr_pc = "returned"
            /\ sr_ret = Some([status |-> o.status, attempt |-> events[i].attempt])
            /\ \A j \in ReqIdx : j < i => FailedAttempt(events[j].outcome)
  /\ (sr_pc = "returned" /\ sr_ret # None)
       => /\ events[Len(events)].ev = "request"
          /\ events[Len(events)].outcome.status = sr_ret[1].status
          /\ sr_ret[1].status < 400
          /\ NumRequests = sr_ret[1].attempt
          /\ NumRequests <= MaxAttempts

\* a 429 with Retry-After: 0, then a 200
C4_Witness ==
  /\ Len(events) = 3
  /\ events[1].ev = "request" /\ events[1].outcome.status = 429
  /\ events[1].outcome.retry_after = Header(<<"0">>)
  /\ events[2] = Sleep(0)
  /\ events[3].ev = "request" /\ events[3].outcome.status = 200
  /\ sr_pc = "returned"
  /\ sr_ret = Some([status |-> 200, attempt |-> 2])
  /\ NumRequests = 2

\* ------------------------------------------------------------------------
\* Properties of the paginated collectors
\* ------------------------------------------------------------------------
\* a page that ends the pagination: a fetcher failure, an empty page or a
\* page shorter than the page size (or one that made the call raise)
StopPage(p) == p.got # "items" \/ Len(p.items) < 50

\* an item as the collector hands it on
AsCollected(kind, item) == IF kind = "categories" THEN <<item.name, item.id>> ELSE item

RECURSIVE ConcatPages(_, _)
ConcatPages(kind, ps) ==
  IF ps = <<>> THEN <<>>
  ELSE [k \in 1..Len(Head(ps).items) |-> AsCollected(kind, Head(ps).items[k])]
         \o ConcatPages(kind, Tail(ps))

FirstN(list, n) == [k \in 1..(IF n < Len(list) THEN n ELSE Len(list)) |-> list[k]]

PastAuth == {"DISCOVER_GENRES", "GLOBAL_SCORES", "DISCOVER_MARKETS", "PER_MARKET",
             "PERSIST", "done"}
PastMarkets == {"PER_MARKET", "PERSIST", "done"}

\* C6: a run that obtains no token (None or an empty token), or a token but
\* no markets, goes no further: it ends with the snapshot file exactly as it
\* was before the run and without a single open or write on it.
C6_AbortLeavesSnapshotUntouched ==
  /\ m_pc \in PastAuth => (token # <<>> /\ token # <<"">>)
  /\ m_pc \in PastMarkets => markets # <<>>
  /\ m_pc \in {"aborted_no_token", "aborted_no_markets"} => (file = file0 /\ fs_ops = 0)
  /\ m_pc = "aborted_no_token" => (token = <<>> \/ token = <<"">>)
  /\ m_pc = "aborted_no_markets" => markets = <<>>
  /\ (m_pc = "raised" /\ (token = <<>> \/ markets = <<>>)) => (file = file0 /\ fs_ops = 0)

\* a token was obtained, no markets came back, and the earlier snapshot is
\* still on disk
C6_Witness ==
  /\ m_pc = "aborted_no_markets"
  /\ token = <<"tok">>
  /\ markets = <<>>
  /\ file0 = FileOf(Chunks(OldResult))
  /\ file = file0
  /\ fs_ops = 0

\* a file that holds a whole snapshot document
IsCompleteSnapshot(content) ==
  /\ Len(content) = 3
  /\ content[1].key = "top_genres"
  /\ content[2].key = "country_genre_popularity"
  /\ content[3].key = "top_artists"

\* C7: at every point of a run, interruptions included, the snapshot file is
\* absent, the complete previous snapshot or the complete new snapshot; never
\* empty or partly written.
C7_SnapshotNeverPartial ==
  \/ ~file.exists
  \/ file = file0 /\ IsCompleteSnapshot(file.content)
  \/ /\ IsCompleteSnapshot(file.content)
     /\ m_pc = "done" => file.content = Chunks(result)

EntryFor(d, market, genre) == DictHas(d, market) /\ DictHas(DictGet(d, market), genre)

\* C8: a run that got a token and at least one market does not end before
\* PERSIST whatever the fetcher meets in the per-market loop, and the snapshot
\* it writes has a score and an artist list for every returned market and
\* every genre of top_genres, 0 and the empty list for a pair whose fetches
\* all failed.
C8_RunReachesPersistWithAllPairs ==
  /\ (token # <<>> /\ token # <<"">> /\ markets # <<>>) => m_pc # "raised"
  /\ m_pc = "done" =>
       /\ file = FileOf(Chunks(result))
       /\ result.top_genres = top_genres
       /\ \A i \in 1..Len(markets), j \in 1..Len(top_genres) :
            /\ EntryFor(result.country_genre_popularity, markets[i], top_genres[j])
            /\ EntryFor(result.top_artists, markets[i], top_genres[j])
       /\ \A p \in failed_pairs :
            /\ DictGet(DictGet(result.country_genre_popularity, p[1]), p[2]) = 0
            /\ DictGet(DictGet(result.top_artists, p[1]), p[2]) = <<>>

\* ------------------------------------------------------------------------
\* Properties of the joiner
\* ------------------------------------------------------------------------
AggregateCodes ==
  {Upper(snapshot.country_genre_popularity[i][1]) :
     i \in 1..Len(snapshot.country_genre_popularity)}

RowsOf(table, i) == {k \in 1..Len(table) : table[k].rec = i}

SentinelRow(r) ==
  /\ r.value = [nan |-> FALSE, v |-> 0]
  /\ ~r.tip.nan
  /\ r.tip.v \in {<<"No data">>, <<"None">>}

\* every boundary record without aggregate entry has rows in the table, all
\* of them with value 0 and the sentinel tooltip
MissingCountriesFilled(table) ==
  \A i \in 1..Len(world.codes) :
    world.codes[i] \notin AggregateCodes =>
      /\ RowsOf(table, i) # {}
      /\ \A k \in RowsOf(table, i) :
           table[k].iso_a2 = world.codes[i] /\ SentinelRow(table[k])

\* C9: in the total view and in every per-genre view, of the map-rendering job
\* and of the dashboard, a boundary record whose ISO-2 code has no entry in
\* the aggregate has a row with value 0 and the sentinel tooltip ("No data" or
\* "None"): never no row, never a missing (NaN) tooltip.
C9_MissingCountryGetsSentinel ==
  /\ j_pc \in {"genres", "done"} => MissingCountriesFilled(merged_total)
  /\ \A g \in 1..Len(genre_maps) : MissingCountriesFilled(genre_maps[g][2])

\* the (genre, score) pairs a total-view tooltip lists, read off its text
Stride == IF job = "render" THEN 4 ELSE 5
TipCount(tip) == (Len(tip) + 1) \div Stride
TipPairs(tip) ==
  [k \in 1..TipCount(tip) |-> <<tip[Stride * (k - 1) + 1], tip[Stride * (k - 1) + 3]>>]
TipWellFormed(tip) ==
  /\ Len(tip) = (IF TipCount(tip) = 0 THEN 0 ELSE Stride * TipCount(tip) - 1)
  /\ \A k \in 1..TipCount(tip) :
       IF job = "render"
         THEN /\ tip[4 * (k - 1) + 2] = ": "
              /\ k < TipCount(tip) => tip[4 * k] = "<br>"
         ELSE /\ tip[5 * (k - 1) + 2] = " ("
              /\ tip[5 * (k - 1) + 4] = ")"
              /\ k < TipCount(tip) => tip[5 * k] = ", "

\* C10: in the total view, a boundary record whose code matches an aggregate
\* key has value = the sum of that country's genre scores, and its tooltip
\* lists min(5, number of genres) distinct genres of that country, each with
\* its own score, in descending score order, none of the genres left out
\* scoring higher than a listed one.
C10_TotalViewSumAndTop5 ==
  j_pc \in {"genres", "done"} =>
    \A k \in 1..Len(merged_total) :
      \A i \in 1..Len(snapshot.country_genre_popularity) :
        LET row  == merged_total[k]
            vals == snapshot.country_genre_popularity[i][2]
            tip  == row.tip.v
            L    == TipPairs(tip)
            n    == TipCount(tip)
        IN  Upper(snapshot.country_genre_popularity[i][1]) = row.iso_a2 =>
              /\ row.value = [nan |-> FALSE, v |-> SumValues(vals)]
              /\ ~row.tip.nan
              /\ TipWellFormed(tip)
              /\ n <= 5
              /\ n = (IF Len(vals) < 5 THEN Len(vals) ELSE 5)
              /\ \A a \in 1..n : \E j \in 1..Len(vals) : vals[j] = L[a]
              /\ \A a, b \in 1..n : a # b => L[a][1] # L[b][1]
              /\ \A a \in 1..(n - 1) : L[a][2] >= L[a + 1][2]
              /\ \A j \in 1..Len(vals) :
                   (\A a \in 1..n : L[a][1] # vals[j][1]) =>
                     \A a \in 1..n : L[a][2] >= vals[j][2]

\* boundaries {US, GB}, aggregate {US: {G1: 10, G2: 20}, GB: {G1: 5, G2: 0}}
C10_Witness ==
  /\ job = "dashboard"
  /\ j_pc = "done"
  /\ world.codes = <<US, GB>>
  /\ snapshot.country_genre_popularity =
       << <<US, << <<"G1", 10>>, <<"G2", 20>> >> >>,
          <<GB, << <<"G1", 5>>, <<"G2", 0>> >> >> >>
  /\ Len(merged_total) = 2
  /\ merged_total[1].iso_a2 = US /\ merged_total[1].value.v = 30
  /\ merged_total[1].tip.v = <<"G2", " (", 20, ")", ", ", "G1", " (", 10, ")">>
  /\ merged_total[2].iso_a2 = GB /\ merged_total[2].value.v = 5

\* ------------------------------------------------------------------------
\* Properties of the aggregation (fetch_top_artists_for_genre)
\* ------------------------------------------------------------------------
\* the tracks that list at least one artist, and the artist each is credited to
Credited == {i \in 1..Len(a_tracks) : a_tracks[i].artists # <<>>}
FirstListed(i) == a_tracks[i].artists[1].name
CreditedNames == {FirstListed(i) : i \in Credited}

RECURSIVE CreditFrom(_, _)
CreditFrom(name, i) ==
  IF i > Len(a_tracks) THEN 0
  ELSE (IF i \in Credited /\ FirstListed(i) = name THEN a_tracks[i].popularity ELSE 0)
       + CreditFrom(name, i + 1)

\* total credited to an artist, and where the artist is first encountered
Credit(name) == CreditFrom(name, 1)
FirstAt(name) == CHOOSE i \in Credited : FirstListed(i) = name /\ \A j \in Credited : FirstListed(j) = name => i <= j

\* artist x is ranked before artist y
RankedBefore(x, y) ==
  Credit(x) > Credit(y) \/ (Credit(x) = Credit(y) /\ FirstAt(x) < FirstAt(y))

Min2(x, y) == IF x <= y THEN x ELSE y

\* C11: once the aggregation has returned, the result holds
\* min(top_n, number of first-listed artists) entries (artist, total), the
\* total being the sum of the popularity of the tracks whose first-listed
\* artist it is (tracks without artists count for nobody); the entries are in
\* descending total, equal totals in first-encountered order, and every
\* artist left out ranks after every entry; tracks (10,A),(20,A),(5,B) with
\* top_n >= 2 give <<A,30>>, <<B,5>>.
C11_AggregatorRanking ==
  a_pc = "returned" =>
    /\ Len(a_ret) = Min2(a_top_n, Cardinality(CreditedNames))
    /\ \A k \in 1..Len(a_ret) :
         /\ a_ret[k][1] \in CreditedNames
         /\ a_ret[k][2] = Credit(a_ret[k][1])
    /\ \A k, l \in 1..Len(a_ret) : k < l => RankedBefore(a_ret[k][1], a_ret[l][1])
    /\ \A n \in CreditedNames :
         (\A k \in 1..Len(a_ret) : a_ret[k][1] # n) =>
           \A k \in 1..Len(a_ret) : RankedBefore(a_ret[k][1], n)
    /\ (a_tracks = <<Track(10, <<"A">>), Track(20, <<"A">>), Track(5, <<"B">>)>> /\ a_top_n >= 2)
         => a_ret = << <<"A", 30>>, <<"B", 5>> >>

\* a track without artists is skipped, a track with two artists counts for the
\* first one only, B and A tie at 10 and B, met first, survives the truncation
C11_Witness ==
  /\ a_pc = "returned"
  /\ a_tracks = <<Track(10, <<"B", "A">>), Track(5, <<>>), Track(10, <<"A">>)>>
  /\ a_top_n = 1
  /\ a_ret = << <<"B", 10>> >>

\* ------------------------------------------------------------------------
\* Properties of the boundary normalization
\* ------------------------------------------------------------------------
\* the columns of the boundary file whose lower-cased name is a known alias
AliasColumns == {i \in 1..Len(bfile.columns) : Lower(bfile.columns[i]) \in IsoAliases}

\* C12: once a job (map rendering or dashboard) is past the normalization,
\* it has failed if and only if the boundary file has no column whose
\* lower-cased name is one of iso_a2, iso2, iso_3166_1_alpha_2,
\* iso3166-1-alpha-2; otherwise the key it took is such a column, the one the
\* map-rendering job takes for this file, and the codes of world are the
\* upper-cased values of that column.
C12_NormalizerTakesAliasColumn ==
  j_pc # "normalize" /\ job # "none" =>
    IF AliasColumns = {}
      THEN j_pc = "raised" /\ ~world.ok
      ELSE /\ j_pc # "raised"
           /\ world.ok
           /\ world.iso_col \in AliasColumns
           /\ world.iso_col = RenderIsoColumn(bfile.columns)
           /\ world.codes = [i \in 1..Len(bfile.rows) |-> Upper(bfile.rows[i][world.iso_col])]

\* ------------------------------------------------------------------------
\* Properties of the genre selection and of the per-market loop
\* ------------------------------------------------------------------------
\* position of the i-th category in descending global score, categories of
\* equal score in discovery order
GenreRank(i) ==
  1 + Cardinality({j \in 1..Len(global_scores) :
                     \/ global_scores[j][2] > global_scores[i][2]
                     \/ global_scores[j][2] = global_scores[i][2] /\ j < i})

SelectedGenres ==
  [k \in 1..Min2(TOP_N_GENRES, Len(global_scores)) |->
     global_scores[CHOOSE i \in 1..Len(global_scores) : GenreRank(i) = k][1]]

\* the keys of a dict, in insertion order
KeyList(d) == [k \in 1..Len(d) |-> d[k][1]]

GenresSelected == {"DISCOVER_MARKETS", "aborted_no_markets", "PER_MARKET", "PERSIST", "done"}

\* C13: once the genres are selected, global_scores holds one score per
\* discovered category in discovery order and top_genres is the first
\* top_n_genres of them in descending score, equal scores in discovery order;
\* in the per-market loop and after it the genres handled for every market
\* are exactly this list, in this order, and it is the top_genres of the
\* result and of the snapshot written.
C13_TopGenresFixedList ==
  /\ m_pc \in GenresSelected =>
       /\ KeyList(global_scores) = KeyList(categories)
       /\ top_genres = SelectedGenres
  /\ m_pc \in PastMarkets =>
       /\ result.top_genres = top_genres
       /\ KeyList(result.country_genre_popularity) = SubSeq(markets, 1, Len(result.country_genre_popularity))
       /\ \A i \in 1..Len(result.country_genre_popularity) :
            /\ KeyList(result.country_genre_popularity[i][2]) = top_genres
            /\ KeyList(result.top_artists[i][2]) = top_genres
       /\ m_pc = "PER_MARKET" =>
            /\ KeyList(country_scores) = SubSeq(top_genres, 1, Len(country_scores))
            /\ KeyList(country_artists) = KeyList(country_scores)
  /\ m_pc = "done" =>
       /\ file.content[1] = [key |-> "top_genres", val |-> top_genres]
       /\ Len(file.content[2].val) = Len(markets)
       /\ \A i \in 1..Len(markets) :
            /\ KeyList(file.content[2].val[i][2]) = top_genres
            /\ KeyList(file.content[3].val[i][2]) = top_genres

\* pop and rock tie at 30: pop, discovered first, is the one genre selected,
\* both markets were handled with it and the snapshot is written
C13_Witness ==
  /\ m_pc = "done"
  /\ global_scores = << <<"pop", 30>>, <<"rock", 30>> >>
  /\ top_genres = <<"pop">>
  /\ Len(markets) = 2
  /\ file.content[1].val = <<"pop">>
  /\ KeyList(file.content[2].val[2][2]) = <<"pop">>

\* the snapshot on disk: the score and the artist list of a (market, genre) pair
PersistedScore(market, genre) == DictGet(DictGet(file.content[2].val, market), genre)
PersistedArtists(market, genre) == DictGet(DictGet(file.content[3].val, market), genre)

\* C14: in the snapshot a finished run has written, for every market and
\* every genre the scores of the artists listed for the pair add up to no
\* more than the score of the pair (so a pair of score 0 lists no artist with
\* a positive score).
C14_ArtistsWithinPairScore ==
  m_pc = "done" =>
    \A i \in 1..Len(markets), j \in 1..Len(top_genres) :
      SumValues(PersistedArtists(markets[i], top_genres[j]))
        <= PersistedScore(markets[i], top_genres[j])
====
